---- MODULE Spec2Model ----
(***************************************************************************)
(* Call-session workflow of CallCenterSection (src/App.tsx) together with  *)
(* the Dashboard state it talks to (studentToCall, callHistory).           *)
(*                                                                         *)
(* React specifics that the model keeps:                                   *)
(*  - a timer or recorder callback runs the closure of the render in which *)
(*    it was created: it sees the student, the duration and (through       *)
(*    addCallToHistory -> useLocalStorage.setValue) the callHistory of     *)
(*    that render, not the current ones;                                   *)
(*  - a click handler runs the closure of the latest render;               *)
(*  - refs (timerRef, callEndTimerRef, mediaRecorderRef, audioStreamRef,   *)
(*    audioChunksRef) belong to one mounted instance of the component and  *)
(*    are shared by all closures of that instance;                         *)
(*  - state setters of an unmounted instance do nothing;                   *)
(*  - useEffect([studentToCall]) runs whenever the studentToCall prop      *)
(*    changes, as part of the step that changed it.                        *)
(* A call session is one invocation of handleCallStart.  Students, and     *)
(* sessions, are numbered from 1; 0 stands for null / undefined.           *)
(***************************************************************************)
EXTENDS Integers, Sequences, FiniteSets, TLC

\* ---- bounds ------------------------------------------------------------
MaxSessions == 2
MaxTicks == 2
MaxMounts == 2
NumStudents == 2
MaxRequests == 2
MaxDialerMounts == 2
MaxCalls == 2
MaxDirectRequests == 1
NumTabs == 2
MaxSetValues == 4
MaxPending == 2
MaxClock == 2
MaxCreations == 2
MaxHistory == 7

Students == 1..NumStudents
Sessions == 1..MaxSessions
Instances == 1..MaxMounts
Requests == 1..MaxRequests
Tabs == 1..NumTabs

VARIABLES
    mounted,            \* CallCenterSection is rendered (activeSection = 'calls')
    inst,               \* number of the mounted (or last mounted) instance
    studentToCall,      \* Dashboard state, 0 = null
    selectedStudentId,  \* component state, 0 = null
    callStatus,         \* component state
    duration,           \* component state
    finishReason,       \* component state
    timerRef,           \* per instance: session whose interval the ref holds, 0 = null
    callEndTimerRef,    \* per instance: session whose call-end timeout the ref holds
    mediaRecorderRef,   \* per instance: session whose MediaRecorder the ref holds
    audioStreamRef,     \* per instance: session whose MediaStream the ref holds
    audioChunksRef,     \* per instance: number of chunks in the current array
    sess,               \* per session: closure values, stream, recorder, timers
    nSess,              \* number of handleCallStart invocations so far
    callHistory,        \* App state (useLocalStorage), newest first
    log                 \* history variable: every addCallToHistory call, in order

\* the legacy Twilio dialer (src/components/Dialer.tsx, its App and the
\* /api/make-call function); it is a separate application, idle in Spec
VARIABLES
    view,               \* legacy App state: 'dialer' (Dialer mounted) or 'admin'
    dialerInst,         \* number of the mounted (or last mounted) Dialer instance
    staffPhoneNumber,   \* legacy App state, "" when not configured
    twilioConfig,       \* legacy App state: accountSid, authToken, twilioPhoneNumber
    callState,          \* Dialer state: student (0 = null), status, message, callSid (0 = undefined)
    requests,           \* per fetch('/api/make-call') of the Dialer: where it stands
    nReq,               \* number of requests sent so far
    legacyCallHistory,  \* legacy App state: CallRecords, newest first
    nCalls,             \* number of calls Twilio has created (the last call SID)
    nDirect,            \* number of requests other HTTP clients have sent to the function
    lastAlert,          \* history variable: what the last initiateCall alerted, "" if nothing
    lastResponse        \* history variable: the last answer to another client: the request's
                        \* method, whether a TWILIO_* variable was unset, the status sent,
                        \* whether Twilio was contacted

\* the /api/login function (src/api/login.ts)
VARIABLES
    lastLogin           \* history variable: the last request to /api/login and its answer

\* useLocalStorage('quranAcademyUser') of App, in every open tab of the browser
VARIABLES
    storage,            \* localStorage item under the key: its text, <<>> when absent
    storedValue,        \* per tab: the hook's state (currentUser), NoUser = null
    pending,            \* per tab: newValue of the storage events queued for its window
    nSets,              \* number of setValue calls so far
    lastSet             \* history variable: tab, argument and outcome of the last setValue

\* StudentsSection with its StudentModal, UsersSection and the ids that
\* Dashboard.addCallToHistory gives to call records
VARIABLES
    clock,              \* what Date.now() returns
    students,           \* student roster (App state): id, name, phone
    teachers,           \* teacher roster (App state): id
    historyIds,         \* the id fields of callHistory, newest first
    nCreated,           \* number of records created so far
    isModalOpen,        \* StudentsSection state
    studentToEdit,      \* StudentsSection state, NoStudent = null
    modalName,          \* StudentModal state 'name'
    modalPhone,         \* StudentModal state 'phone', a sequence of characters
    saveSeq,            \* history variable: flips at every handleSave
    lastSave            \* history variable: what the last handleSave did: "required" and
                        \* "invalid" (its error toasts) or "saved"

\* HistorySection
VARIABLES
    historyUser,        \* the 'user' prop: type and name
    historyRecords,     \* the 'callHistory' prop: teacherName, studentName, recordingUrl
    searchTerm,         \* component state
    currentPage,        \* component state
    nowPlaying          \* component state, NoPlaying = null

callCenterVars ==
    <<mounted, inst, studentToCall, selectedStudentId, callStatus, duration,
      finishReason, timerRef, callEndTimerRef, mediaRecorderRef,
      audioStreamRef, audioChunksRef, sess, nSess, callHistory, log>>
dialerVars ==
    <<view, dialerInst, staffPhoneNumber, twilioConfig, callState, requests, nReq,
      legacyCallHistory, nCalls, nDirect, lastAlert, lastResponse>>
loginVars == <<lastLogin>>
storageVars == <<storage, storedValue, pending, nSets, lastSet>>
rosterVars ==
    <<clock, students, teachers, historyIds, nCreated, isModalOpen, studentToEdit,
      modalName, modalPhone, saveSeq, lastSave>>
modalVars == <<isModalOpen, studentToEdit, modalName, modalPhone>>
\* the rest of the academy application, idle in Spec and in DialerSpec
historyVars == <<historyUser, historyRecords, searchTerm, currentPage, nowPlaying>>
officeVars == <<loginVars, storageVars, rosterVars, historyVars>>
outsideLogin == <<callCenterVars, dialerVars, storageVars, rosterVars, historyVars>>
outsideStorage == <<callCenterVars, dialerVars, loginVars, rosterVars, historyVars>>
outsideRoster == <<callCenterVars, dialerVars, loginVars, storageVars, historyVars>>
outsideHistory == <<callCenterVars, dialerVars, loginVars, storageVars, rosterVars>>
elsewhere == <<dialerVars, officeVars>>
outsideDialer == <<callCenterVars, officeVars>>
vars == <<callCenterVars, elsewhere>>

uiVars == <<selectedStudentId, callStatus, duration, finishReason>>
refVars == <<timerRef, callEndTimerRef, mediaRecorderRef, audioStreamRef, audioChunksRef>>

\* ---- values ------------------------------------------------------------
\* recorder.onstop before handleCallEnd sets it
NoHandler ==
    [set |-> FALSE, closure |-> [inst |-> 0, student |-> 0, duration |-> 0, hist |-> <<>>],
     dropped |-> FALSE, studentEnded |-> FALSE, session |-> 0]

\* a session slot that no handleCallStart has used yet
FreeSession ==
    [phase |-> "free", inst |-> 0, student |-> 0, capDuration |-> 0,
     capHistory |-> <<>>, streamLive |-> FALSE, recState |-> "none",
     dialPending |-> FALSE, interval |-> FALSE, endTimer |-> "none",
     onstop |-> NoHandler, stopPending |-> FALSE, ticks |-> 0]

\* Nothing of session s can run any more: no getUserMedia promise, timer,
\* interval or recorder event refers to its closure
Dead(S, s) ==
    /\ S[s].phase \in {"failed", "started"}
    /\ ~S[s].dialPending
    /\ ~S[s].interval
    /\ S[s].endTimer = "none"
    /\ S[s].recState # "recording"
    /\ ~S[s].stopPending

\* the values only the closures of a dead session could read are dropped
\* (garbage collection); stream, recorder and history tags stay
Collect(S) ==
    [s \in Sessions |->
        IF Dead(S, s)
        THEN [S[s] EXCEPT !.capHistory = <<>>, !.capDuration = 0, !.onstop = NoHandler]
        ELSE S[s]]

\* the instance i is the one on screen: its state setters take effect
Live(i) == mounted /\ inst = i

\* blobToBase64 always resolves with a data: URL string, also for an empty Blob
BlobToBase64(nChunks) == IF nChunks = 0 THEN "data:empty" ELSE "data:audio"

\* setDuration(prev => prev + 1)
TickValue(prev) == prev + 1

\* the CallRecord passed to addCallToHistory; session is a history tag
CallRecordOf(stu, status, dur, url, s) ==
    [studentName |-> stu, status |-> status, duration |-> dur,
     recordingUrl |-> url, session |-> s]

\* the dial time recorded as a duration
DialFailedRecordMut(stu, status, s) == CallRecordOf(stu, status, 3, "null", s)

\* record of the busy / no-answer branches of the dial timeout
DialFailedRecord(stu, status, s) == CallRecordOf(stu, status, 0, "null", s)

\* record of the cancel branch of handleCallEnd
CanceledRecord(stu, s) == CallRecordOf(stu, "Canceled", 0, "null", s)

\* const status = dropped ? 'Failed (Dropped)' : 'Completed'
EndStatus(dropped) == IF dropped THEN "Failed (Dropped)" ELSE "Completed"

\* setFinishReason in processRecording
EndReason(dropped, studentEnded) ==
    IF dropped THEN "dropped" ELSE IF studentEnded THEN "studentEnded" ELSE "ended"

\* entry of the history variable log
LogEntry(rec, s, S) == [rec |-> rec, session |-> s, ticks |-> IF s = 0 THEN 0 ELSE S[s].ticks]

TypeOK ==
    /\ mounted \in BOOLEAN
    /\ inst \in 0..MaxMounts
    /\ studentToCall \in 0..NumStudents
    /\ selectedStudentId \in 0..NumStudents
    /\ callStatus \in {"idle", "dialing", "active", "finished"}
    /\ duration \in 0..MaxTicks
    /\ nSess \in 0..MaxSessions
    /\ \A i \in Instances : timerRef[i] \in 0..MaxSessions

\* ---- legacy dialer: data ----------------------------------------------------
\* values of a text setting: not configured, or configured
Settings == {"", "set"}

TwilioConfigs == [accountSid : Settings, authToken : Settings, twilioPhoneNumber : Settings]

\* process.env of the serverless function: the three TWILIO_* variables, all
\* set or one of them unset
Environments ==
    {e \in [accountSid : Settings, authToken : Settings, twilioPhoneNumber : Settings] :
        Cardinality({f \in {"accountSid", "authToken", "twilioPhoneNumber"} : e[f] = ""}) <= 1}

\* !a || !b || !c of the three Twilio settings
AnyMissing(c) == c.accountSid = "" \/ c.authToken = "" \/ c.twilioPhoneNumber = ""

\* what client.calls.create (or the twilio client factory before it) does
TwilioOutcomes == {"created", "rejected: twilio text", "rejected: other text",
                   "rejected: no text", "factory throws"}

ConfigErrorText == "Server configuration error. The calling service is not correctly set up."

\* error.message.toLowerCase().includes('twilio')
MentionsTwilio(msg) ==
    msg \in {"Twilio says the number is not valid", "Could not initiate the call via Twilio."}

\* error.message of a rejected client.calls.create
TwilioErrorText(outcome) ==
    CASE outcome = "rejected: twilio text" -> "Twilio says the number is not valid"
      [] outcome = "rejected: other text" -> "Authenticate"
      [] OTHER -> ""

\* the answer of handler(req, res): HTTP status, whether the body is JSON,
\* its message and callSid, and whether Twilio was asked to create a call
Answer(status, json, message, callSid, twilio) ==
    [status |-> status, json |-> json, message |-> message, callSid |-> callSid,
     twilio |-> twilio]

\* the handler with the TWILIO_* check left out
HandlerSkipsEnvCheck(method, e, body, outcome, sid) ==
    IF method # "POST" THEN Answer(405, FALSE, "Method Not Allowed", 0, FALSE)
    ELSE IF body.staffNumber = "" \/ body.studentNumber = ""
    THEN Answer(400, TRUE, "Missing staff or student phone number.", 0, FALSE)
    ELSE IF outcome = "factory throws"
    THEN Answer(500, TRUE, "Internal Server Error: accountSid must start with AC", 0, FALSE)
    ELSE IF outcome = "created"
    THEN Answer(200, TRUE, "Call is being connected by Twilio.", sid, TRUE)
    ELSE Answer(500, TRUE,
                IF TwilioErrorText(outcome) # "" THEN TwilioErrorText(outcome)
                ELSE "Could not initiate the call via Twilio.", 0, TRUE)

\* handler(req, res) of /api/make-call; sid is the SID Twilio gives a new call
Handler(method, e, body, outcome, sid) ==
    IF method # "POST" THEN Answer(405, FALSE, "Method Not Allowed", 0, FALSE)
    ELSE IF AnyMissing(e) THEN Answer(500, TRUE, ConfigErrorText, 0, FALSE)
    ELSE IF body.staffNumber = "" \/ body.studentNumber = ""
    THEN Answer(400, TRUE, "Missing staff or student phone number.", 0, FALSE)
    ELSE IF outcome = "factory throws"
    THEN Answer(500, TRUE, "Internal Server Error: accountSid must start with AC", 0, FALSE)
    ELSE IF outcome = "created"
    THEN Answer(200, TRUE, "Call is being connected by Twilio.", sid, TRUE)
    ELSE Answer(500, TRUE,
                IF TwilioErrorText(outcome) # "" THEN TwilioErrorText(outcome)
                ELSE "Could not initiate the call via Twilio.", 0, TRUE)

\* data.message || `An error occurred with the call service (status N).`
ApiErrorMessage(message) ==
    IF message # "" THEN message ELSE "An error occurred with the call service."

\* the message initiateCall shows for an ApiError, with one branch left blank
UserFriendlyMessageBlank(status, message) ==
    IF status = 500 /\ message = ConfigErrorText THEN "backend is missing its Twilio credentials"
    ELSE IF status = 400 THEN "problem with the data sent"
    ELSE IF MentionsTwilio(message) THEN "Twilio reported an error"
    ELSE ""

\* the message initiateCall shows for an ApiError
UserFriendlyMessage(status, message) ==
    IF status = 500 /\ message = ConfigErrorText THEN "backend is missing its Twilio credentials"
    ELSE IF status = 400 THEN "problem with the data sent"
    ELSE IF MentionsTwilio(message) THEN "Twilio reported an error"
    ELSE "unexpected server error"

\* the message of the BackendError of each way the request itself fails
BackendErrorMessage(kind) ==
    CASE kind = "timeout" -> "The call service took too long to respond."
      [] kind = "network" -> "Network error: Could not reach the call service."
      [] kind = "404" -> "API endpoint not found (404)."
      [] kind = "non-JSON" -> "Invalid response from server."

IdleCallState == [student |-> 0, status |-> "idle", message |-> "", callSid |-> 0]

NoRequest == [phase |-> "free", inst |-> 0, student |-> 0, body |-> <<>>, answer |-> <<>>]

\* request q is over: its body and the response are dropped
Over(R, q, phase) ==
    [R EXCEPT ![q].phase = phase, ![q].body = <<>>, ![q].answer = <<>>]

NoResponse == [method |-> "", unset |-> FALSE, status |-> 0, twilio |-> FALSE]

\* markCallAsComplete: records of that call still in progress get duration 0
MarkCallAsComplete(h, callSid) ==
    [k \in 1..Len(h) |->
        IF h[k].callSid = callSid /\ h[k].duration = "undefined"
        THEN [h[k] EXCEPT !.duration = "0"] ELSE h[k]]

\* the Dialer instance i is the mounted one
LiveDialer(i) == view = "dialer" /\ dialerInst = i

\* CallModal is rendered
ModalShown == view = "dialer" /\ callState.status # "idle" /\ callState.student # 0

DialerInit ==
    /\ view = "dialer"
    /\ dialerInst = 1
    /\ staffPhoneNumber = ""
    /\ twilioConfig = [accountSid |-> "", authToken |-> "", twilioPhoneNumber |-> ""]
    /\ callState = IdleCallState
    /\ requests = [q \in Requests |-> NoRequest]
    /\ nReq = 0
    /\ legacyCallHistory = <<>>
    /\ nCalls = 0
    /\ nDirect = 0
    /\ lastAlert = ""
    /\ lastResponse = NoResponse

\* ---- /api/login: data --------------------------------------------------------
\* values of a password: not set ("" stands for undefined and for ''), or a text
Passwords == {"", "pa", "ps", "guess"}

\* process.env of the login function: ADMIN_PASSWORD and STAFF_PASSWORD
LoginEnvironments == [adminPassword : {"", "pa", "ps"}, staffPassword : {"", "pa", "ps"}]

\* req.body: absent, or an object with type, password and name
LoginBodies ==
    {[present |-> FALSE, type |-> "", password |-> "", name |-> ""]} \cup
    [present : {TRUE}, type : {"", "admin", "staff", "teacher"}, password : Passwords,
     name : {"", "Ali"}]

\* what the function sends: HTTP status and the 'success' member of its body
LoginAnswer(status, success) == [status |-> status, success |-> success]

\* the handler with the staff name check left out
LoginHandlerNoNameCheck(method, e, body) ==
    IF method # "POST" THEN LoginAnswer(405, FALSE)
    ELSE IF ~body.present THEN LoginAnswer(500, FALSE)
    ELSE IF body.type = "" \/ body.password = "" THEN LoginAnswer(400, FALSE)
    ELSE IF e.adminPassword = "" \/ e.staffPassword = "" THEN LoginAnswer(500, FALSE)
    ELSE IF body.type = "admin" /\ body.password = e.adminPassword THEN LoginAnswer(200, TRUE)
    ELSE IF body.type = "staff" /\ body.password = e.staffPassword THEN LoginAnswer(200, TRUE)
    ELSE LoginAnswer(401, FALSE)

\* handler(req, res) of /api/login.  Without a body the destructuring of
\* req.body throws and the platform answers 500.
LoginHandler(method, e, body) ==
    IF method # "POST" THEN LoginAnswer(405, FALSE)
    ELSE IF ~body.present THEN LoginAnswer(500, FALSE)
    ELSE IF body.type = "" \/ body.password = "" THEN LoginAnswer(400, FALSE)
    ELSE IF e.adminPassword = "" \/ e.staffPassword = "" THEN LoginAnswer(500, FALSE)
    ELSE IF body.type = "admin" /\ body.password = e.adminPassword THEN LoginAnswer(200, TRUE)
    ELSE IF body.type = "staff" /\ body.password = e.staffPassword
    THEN IF body.name = "" THEN LoginAnswer(400, FALSE) ELSE LoginAnswer(200, TRUE)
    ELSE LoginAnswer(401, FALSE)

NoLogin ==
    [method |-> "", env |-> [adminPassword |-> "", staffPassword |-> ""],
     body |-> [present |-> FALSE, type |-> "", password |-> "", name |-> ""],
     answer |-> LoginAnswer(0, FALSE)]

LoginInit == lastLogin = NoLogin

\* ---- useLocalStorage: data ----------------------------------------------------
\* values of currentUser; NoUser stands for null
NoUser == [type |-> "", name |-> ""]
Users == {[type |-> "admin", name |-> "Administrator"], [type |-> "staff", name |-> "Ali"]}

\* JSON.stringify of a user: the text kept in localStorage
Stringify(u) == <<"{", u.type, u.name, "}">>

\* JSON.parse of such a text
Parse(text) == [type |-> text[2], name |-> text[3]]

\* what setValue(value) persists: removeItem for null, setItem otherwise
Persisted(value) == IF value = NoUser THEN <<>> ELSE Stringify(value)

\* useState initialiser and storage listener: item ? JSON.parse(item) : initialValue
FromStorage(item) == IF item # <<>> THEN Parse(item) ELSE NoUser

NoSet == [tab |-> 0, value |-> NoUser, threw |-> FALSE]

StorageInit ==
    /\ storage = <<>>
    /\ storedValue = [t \in Tabs |-> FromStorage(<<>>)]
    /\ pending = [t \in Tabs |-> <<>>]
    /\ nSets = 0
    /\ lastSet = NoSet

\* ---- rosters and StudentModal: data ------------------------------------------
Digits == {"0", "1", "2", "3", "4", "5", "6", "7", "8", "9"}

\* phone.replace(/[\s()-]/g, '')
RemoveSeparators(text) == SelectSeq(text, LAMBDA c : c \notin {" ", "(", ")", "-"})

\* replace(/^\+?1?/, ''): an optional '+', then an optional '1', at the start
StripCountryCode(text) ==
    LET a == IF text # <<>> /\ Head(text) = "+" THEN Tail(text) ELSE text
    IN  IF a # <<>> /\ Head(a) = "1" THEN Tail(a) ELSE a

\* /^\d{10}$/.test(text)
IsTenDigits(text) == Len(text) = 10 /\ \A i \in 1..Len(text) : text[i] \in Digits

\* handleSave: cleanPhone
CleanPhone(text) == StripCountryCode(RemoveSeparators(text))

\* text.replace('+1', ''): the first occurrence of '+1' is taken out
RemovePlusOne(text) ==
    LET at == {i \in 1..(Len(text) - 1) : text[i] = "+" /\ text[i + 1] = "1"}
    IN  IF at = {} THEN text
        ELSE LET i == CHOOSE j \in at : \A k \in at : j <= k
             IN  SubSeq(text, 1, i - 1) \o SubSeq(text, i + 2, Len(text))

\* '+1' followed by exactly 10 digits
IsStoredPhone(text) ==
    /\ Len(text) = 12
    /\ text[1] = "+" /\ text[2] = "1"
    /\ \A i \in 3..12 : text[i] \in Digits

\* what the operator types into the phone field
Nine == <<"0", "2", "5", "5", "5", "0", "1", "0", "1">>
Ten == <<"2">> \o Nine
OneTen == <<"1">> \o Nine
Pretty(text) ==
    <<"(">> \o SubSeq(text, 1, 3) \o <<")", " ">> \o SubSeq(text, 4, 6) \o <<"-">>
    \o SubSeq(text, 7, Len(text))
PhoneInputs ==
    {p \o b : p \in {<<>>, <<"1">>, <<"+", "1">>}, b \in {Ten, OneTen, Nine}}
    \cup {<<"+">> \o Ten, <<"+", "1", " ">> \o Pretty(Ten), Nine \o <<"x">>,
          Ten \o <<"7">>, <<>>}

NoStudent == [id |-> 0, name |-> "", phone |-> <<>>]

\* SAMPLE_STUDENTS, one of them; the ids of the seed data are below any Date.now()
SeedStudent == [id |-> 0, name |-> "Yusuf Ahmed", phone |-> <<"+", "1">> \o Ten]

\* the fields of StudentModal after its effect on [studentToEdit, isOpen]
Prefill(stu) ==
    IF stu # NoStudent THEN [name |-> stu.name, phone |-> RemovePlusOne(stu.phone)]
    ELSE [name |-> "", phone |-> <<>>]

NoSave == ""

RosterInit ==
    /\ clock = 1
    /\ students = <<SeedStudent>>
    /\ teachers = <<>>
    /\ historyIds = <<>>
    /\ nCreated = 0
    /\ isModalOpen = FALSE
    /\ studentToEdit = NoStudent
    /\ modalName = ""
    /\ modalPhone = <<>>
    /\ saveSeq = 0
    /\ lastSave = NoSave

\* ---- HistorySection: data ------------------------------------------------------
ITEMS_PER_PAGE == 5

\* names are sequences of characters
Al == <<"A", "l">>
Bo == <<"B", "o">>
Za == <<"Z", "a">>
Ab == <<"A", "b">>

HistoryUsers ==
    {[type |-> "admin", name |-> <<"A", "d">>], [type |-> "staff", name |-> Al],
     [type |-> "staff", name |-> Bo]}

\* the call records that can be in the history
HistoryRecordKinds ==
    {[teacherName |-> Al, studentName |-> Za, recordingUrl |-> "data:audio"],
     [teacherName |-> Al, studentName |-> Ab, recordingUrl |-> "null"],
     [teacherName |-> Bo, studentName |-> Za, recordingUrl |-> "data:audio"]}

\* what can be typed into the search box
SearchTerms == {<<>>, <<"a">>, <<"B", "O">>}

\* String.prototype.toLowerCase
ToLowerCase(text) ==
    [i \in 1..Len(text) |->
        CASE text[i] = "A" -> "a"
          [] text[i] = "B" -> "b"
          [] text[i] = "O" -> "o"
          [] text[i] = "Z" -> "z"
          [] OTHER -> text[i]]

\* String.prototype.includes
Includes(text, part) ==
    \E i \in 0..(Len(text) - Len(part)) : SubSeq(text, i + 1, i + Len(part)) = part

\* the filter with the teacherName test left out
FilteredHistorySearchOnly(u, history, term) ==
    SelectSeq(history, LAMBDA r :
        \/ Includes(ToLowerCase(r.studentName), ToLowerCase(term))
        \/ (u.type = "admin" /\ Includes(ToLowerCase(r.teacherName), ToLowerCase(term))))

\* filteredHistory
FilteredHistory(u, history, term) ==
    SelectSeq(history, LAMBDA r :
        /\ (u.type = "admin" \/ r.teacherName = u.name)
        /\ \/ Includes(ToLowerCase(r.studentName), ToLowerCase(term))
           \/ (u.type = "admin" /\ Includes(ToLowerCase(r.teacherName), ToLowerCase(term))))

\* Math.ceil(filteredHistory.length / ITEMS_PER_PAGE)
TotalPages(filtered) == (Len(filtered) + ITEMS_PER_PAGE - 1) \div ITEMS_PER_PAGE

\* filteredHistory.slice(startIndex, startIndex + ITEMS_PER_PAGE)
PaginatedHistory(filtered, page) ==
    LET startIndex == (page - 1) * ITEMS_PER_PAGE
        last == IF startIndex + ITEMS_PER_PAGE < Len(filtered)
                THEN startIndex + ITEMS_PER_PAGE ELSE Len(filtered)
    IN  SubSeq(filtered, startIndex + 1, last)

\* call.recordingUrl && user.type === 'admin': the Play Recording button
PlayShown(r, u) == r.recordingUrl # "null" /\ u.type = "admin"

\* the effect on [currentPage, totalPages]
AdjustPage(page, total) == IF page > total /\ total > 0 THEN total ELSE page

NoPlaying == [url |-> "null", studentName |-> <<>>]

\* what the section lists now
Listed == PaginatedHistory(FilteredHistory(historyUser, historyRecords, searchTerm), currentPage)

\* the pagination controls are rendered
PagerShown ==
    Listed # <<>> /\ TotalPages(FilteredHistory(historyUser, historyRecords, searchTerm)) > 1

HistoryInit ==
    /\ historyUser = [type |-> "admin", name |-> <<"A", "d">>]
    /\ historyRecords = <<>>
    /\ searchTerm = <<>>
    /\ currentPage = 1
    /\ nowPlaying = NoPlaying

\* ---- state after construction -------------------------------------------
Init ==
    /\ mounted = FALSE
    /\ inst = 0
    /\ studentToCall = 0
    /\ selectedStudentId = 0
    /\ callStatus = "idle"
    /\ duration = 0
    /\ finishReason = ""
    /\ timerRef = [i \in Instances |-> 0]
    /\ callEndTimerRef = [i \in Instances |-> 0]
    /\ mediaRecorderRef = [i \in Instances |-> 0]
    /\ audioStreamRef = [i \in Instances |-> 0]
    /\ audioChunksRef = [i \in Instances |-> 0]
    /\ sess = [s \in Sessions |-> FreeSession]
    /\ nSess = 0
    /\ callHistory = <<>>
    /\ log = <<>>
    /\ DialerInit
    /\ LoginInit
    /\ StorageInit
    /\ RosterInit
    /\ HistoryInit

\* ---- state setters -------------------------------------------------------
\* The state setters a handler of instance i called (st, du, se, re: the
\* values it leaves in callStatus, duration, selectedStudentId and
\* finishReason), followed, when the handler called onCallFinished(), by
\* setStudentToCall(null) and the useEffect([studentToCall]) that a change of
\* the prop triggers in the mounted instance.
SetState(i, st, du, se, re, finished) ==
    LET effect == finished /\ studentToCall # 0 /\ mounted
        st1 == IF Live(i) THEN st ELSE callStatus
        du1 == IF Live(i) THEN du ELSE duration
        se1 == IF Live(i) THEN se ELSE selectedStudentId
        re1 == IF Live(i) THEN re ELSE finishReason
    IN  /\ studentToCall' = IF finished THEN 0 ELSE studentToCall
        /\ callStatus' = IF effect THEN "idle" ELSE st1
        /\ duration' = IF effect THEN 0 ELSE du1
        /\ selectedStudentId' = IF effect THEN 0 ELSE se1
        /\ finishReason' = re1

\* addCallToHistory(call) of a closure whose render saw the history hist:
\* setValue computes value(storedValue) with the storedValue of that render
AddCallToHistory(rec, hist, s, S) ==
    /\ callHistory' = <<rec>> \o hist
    /\ log' = Append(log, LogEntry(rec, s, S))

\* ---- navigation ----------------------------------------------------------
\* Sidebar 'calls' (stc = studentToCall) or StudentsSection call button
\* (initiateCall(student): stc = that student); a new instance is mounted
Mount(stc) ==
    /\ ~mounted
    /\ inst < MaxMounts
    /\ mounted' = TRUE
    /\ inst' = inst + 1
    /\ studentToCall' = stc
    /\ selectedStudentId' = stc
    /\ callStatus' = "idle"
    /\ duration' = 0
    /\ finishReason' = ""
    /\ UNCHANGED <<refVars, sess, nSess, callHistory, log>>
    /\ UNCHANGED elsewhere

\* the operator leaves the section: the unmount cleanup runs
Unmount ==
    /\ mounted
    /\ mounted' = FALSE
    /\ LET t == timerRef[inst]
           e == callEndTimerRef[inst]
           a == audioStreamRef[inst]
           S1 == IF t # 0 THEN [sess EXCEPT ![t].interval = FALSE] ELSE sess
           S2 == IF e # 0 THEN [S1 EXCEPT ![e].endTimer = "none"] ELSE S1
           S3 == IF a # 0 THEN [S2 EXCEPT ![a].streamLive = FALSE] ELSE S2
       IN  sess' = Collect(S3)
    /\ timerRef' = [timerRef EXCEPT ![inst] = 0]
    /\ selectedStudentId' = 0
    /\ callStatus' = "idle"
    /\ duration' = 0
    /\ finishReason' = ""
    /\ UNCHANGED <<inst, studentToCall, callEndTimerRef, mediaRecorderRef,
                   audioStreamRef, audioChunksRef, nSess, callHistory, log>>
    /\ UNCHANGED elsewhere

\* the select element of the 'Select a Student to Call' panel
SelectStudent(stu) ==
    /\ mounted
    /\ callStatus = "idle"
    /\ selectedStudentId = 0
    /\ selectedStudentId' = stu
    /\ UNCHANGED <<mounted, inst, studentToCall, callStatus, duration, finishReason,
                   refVars, sess, nSess, callHistory, log>>
    /\ UNCHANGED elsewhere

\* ---- handleCallStart ------------------------------------------------------
\* click on the call button: handleCallStart runs up to the await of
\* getUserMedia; the closure keeps student, duration and history of this render
CallStartClick ==
    /\ mounted
    /\ callStatus = "idle"
    /\ selectedStudentId # 0
    /\ nSess < MaxSessions
    /\ nSess' = nSess + 1
    /\ sess' = [sess EXCEPT ![nSess + 1] =
                  [FreeSession EXCEPT !.phase = "pending", !.inst = inst,
                                      !.student = selectedStudentId,
                                      !.capDuration = duration,
                                      !.capHistory = callHistory]]
    /\ UNCHANGED <<mounted, inst, studentToCall, uiVars, refVars, callHistory, log>>
    /\ UNCHANGED elsewhere

\* getUserMedia rejects: the catch block
GetUserMediaDenied(s) ==
    /\ sess[s].phase = "pending"
    /\ sess' = Collect([sess EXCEPT ![s].phase = "failed"])
    /\ SetState(sess[s].inst, "idle", duration, selectedStudentId, finishReason, FALSE)
    /\ UNCHANGED <<mounted, inst, refVars, nSess, callHistory, log>>
    /\ UNCHANGED elsewhere

\* getUserMedia resolves but new MediaRecorder(stream) throws: the catch block
\* runs after audioStreamRef.current = stream
MediaRecorderFails(s) ==
    /\ sess[s].phase = "pending"
    /\ sess' = Collect([sess EXCEPT ![s].phase = "failed", ![s].streamLive = TRUE])
    /\ audioStreamRef' = [audioStreamRef EXCEPT ![sess[s].inst] = s]
    /\ SetState(sess[s].inst, "idle", duration, selectedStudentId, finishReason, FALSE)
    /\ UNCHANGED <<mounted, inst, timerRef, callEndTimerRef, mediaRecorderRef,
                   audioChunksRef, nSess, callHistory, log>>
    /\ UNCHANGED elsewhere

\* getUserMedia resolves: stream and recorder are stored, the session enters
\* 'dialing' and the 3-second dial timeout is scheduled
GetUserMediaOk(s) ==
    /\ sess[s].phase = "pending"
    /\ sess' = [sess EXCEPT ![s].phase = "started", ![s].streamLive = TRUE,
                            ![s].recState = "inactive", ![s].dialPending = TRUE]
    /\ audioStreamRef' = [audioStreamRef EXCEPT ![sess[s].inst] = s]
    /\ mediaRecorderRef' = [mediaRecorderRef EXCEPT ![sess[s].inst] = s]
    /\ audioChunksRef' = [audioChunksRef EXCEPT ![sess[s].inst] = 0]
    /\ SetState(sess[s].inst, "dialing", 0, selectedStudentId, finishReason, FALSE)
    /\ UNCHANGED <<mounted, inst, timerRef, callEndTimerRef, nSess, callHistory, log>>
    /\ UNCHANGED elsewhere

\* dial timeout, dialOutcome < 0.8.  recorder.start() on a stream whose tracks
\* have all been stopped throws NotSupportedError (MediaStream Recording,
\* start(), "if stream is inactive") and the callback ends there.
\* endScenario: "dropped", "studentEnded" or "none" (operator hangs up).
DialConnected(s, endScenario) ==
    /\ sess[s].dialPending
    /\ IF ~sess[s].streamLive
       THEN /\ sess' = Collect([sess EXCEPT ![s].dialPending = FALSE])
            /\ UNCHANGED <<studentToCall, uiVars, timerRef, callEndTimerRef>>
       ELSE /\ sess' = [sess EXCEPT ![s].dialPending = FALSE,
                                    ![s].recState = "recording",
                                    ![s].interval = TRUE,
                                    ![s].endTimer = endScenario]
            /\ timerRef' = [timerRef EXCEPT ![sess[s].inst] = s]
            /\ callEndTimerRef' = IF endScenario = "none" THEN callEndTimerRef
                                  ELSE [callEndTimerRef EXCEPT ![sess[s].inst] = s]
            /\ SetState(sess[s].inst, "active", duration, selectedStudentId, finishReason, FALSE)
    /\ UNCHANGED <<mounted, inst, mediaRecorderRef, audioStreamRef, audioChunksRef,
                   nSess, callHistory, log>>
    /\ UNCHANGED elsewhere

\* dial timeout, busy (status "Failed (Busy)", reason "busy") or no answer
DialFailed(s, status, reason) ==
    /\ sess[s].dialPending
    /\ LET S1 == [sess EXCEPT ![s].dialPending = FALSE, ![s].streamLive = FALSE]
       IN  /\ sess' = Collect(S1)
           /\ AddCallToHistory(DialFailedRecord(sess[s].student, status, s),
                               sess[s].capHistory, s, S1)
    /\ SetState(sess[s].inst, "finished", duration, selectedStudentId, reason, TRUE)
    /\ UNCHANGED <<mounted, inst, refVars, nSess>>
    /\ UNCHANGED elsewhere

\* the interval of startTimer fires; an unmounted instance ignores setDuration
Tick(s) ==
    /\ sess[s].interval
    /\ Live(sess[s].inst)
    /\ duration < MaxTicks
    /\ sess[s].ticks < MaxTicks
    /\ duration' = TickValue(duration)
    /\ sess' = [sess EXCEPT ![s].ticks = @ + 1]
    /\ UNCHANGED <<mounted, inst, studentToCall, selectedStudentId, callStatus,
                   finishReason, refVars, nSess, callHistory, log>>
    /\ UNCHANGED elsewhere

\* ---- handleCallEnd --------------------------------------------------------
\* what a handler of the latest render sees
ClickClosure ==
    [inst |-> inst, student |-> selectedStudentId, duration |-> duration,
     hist |-> callHistory]

\* what the callbacks of session s see: the render of its handleCallStart
TimerClosure(s) ==
    [inst |-> sess[s].inst, student |-> sess[s].student,
     duration |-> sess[s].capDuration, hist |-> sess[s].capHistory]

\* the record processRecording composes in closure c from a blob of n chunks
EndRecord(c, dropped, n, s) ==
    CallRecordOf(c.student, EndStatus(dropped), c.duration, BlobToBase64(n), s)

\* handleCallEnd in closure c, starting from the session table S.  forS is
\* the session the call is made for (history tag; 0: the session of the
\* recorder in mediaRecorderRef).  stopTimer, clearTimeout and the track stop
\* go through the refs of the instance; then either the recorder of
\* mediaRecorderRef is recording, gets its onstop and is stopped, or the else
\* branch finishes the session at once.
HandleCallEnd(c, canceled, dropped, studentEnded, forS, S) ==
    LET i == c.inst
        t == timerRef[i]
        e == callEndTimerRef[i]
        a == audioStreamRef[i]
        r == mediaRecorderRef[i]
        S1 == IF t # 0 THEN [S EXCEPT ![t].interval = FALSE] ELSE S
        S2 == IF e # 0 THEN [S1 EXCEPT ![e].endTimer = "none"] ELSE S1
        S3 == IF a # 0 THEN [S2 EXCEPT ![a].streamLive = FALSE] ELSE S2
        recording == r # 0 /\ S3[r].recState = "recording"
        who == IF forS # 0 THEN forS ELSE r
    IN  /\ timerRef' = [timerRef EXCEPT ![i] = 0]
        /\ callEndTimerRef' = [callEndTimerRef EXCEPT ![i] = 0]
        /\ IF recording
           THEN /\ sess' = [S3 EXCEPT ![r].recState = "inactive",
                                      ![r].stopPending = TRUE,
                                      ![r].onstop =
                                          [set |-> TRUE, closure |-> c,
                                           dropped |-> dropped,
                                           studentEnded |-> studentEnded,
                                           session |-> who]]
                /\ UNCHANGED <<studentToCall, uiVars, callHistory, log>>
           ELSE /\ sess' = Collect(S3)
                /\ IF c.student # 0 /\ canceled
                   THEN /\ AddCallToHistory(CanceledRecord(c.student, who), c.hist, who, S3)
                        /\ SetState(i, "finished", duration, selectedStudentId, "canceled", TRUE)
                   ELSE /\ UNCHANGED <<callHistory, log>>
                        /\ SetState(i, "finished", duration, selectedStudentId, finishReason, TRUE)
        /\ UNCHANGED <<mounted, inst, mediaRecorderRef, audioStreamRef, audioChunksRef, nSess>>

\* the hang-up button, shown while 'dialing' or 'active':
\* handleCallEnd({ canceled: callStatus === 'dialing' }) of the latest render
HangUpClick ==
    /\ mounted
    /\ callStatus \in {"dialing", "active"}
    /\ HandleCallEnd(ClickClosure, callStatus = "dialing", FALSE, FALSE, 0, sess)
    /\ UNCHANGED elsewhere

\* the call-end timeout of session s fires: handleCallEnd({dropped: true}) or
\* handleCallEnd({studentEnded: true}) of the render that started the session
CallEndTimer(s) ==
    /\ sess[s].endTimer # "none"
    /\ HandleCallEnd(TimerClosure(s), FALSE, sess[s].endTimer = "dropped",
                     sess[s].endTimer = "studentEnded", s,
                     [sess EXCEPT ![s].endTimer = "none"])
    /\ UNCHANGED elsewhere

\* the stop of recorder r is delivered: ondataavailable (gotData: the blob is
\* not empty) and then onstop, i.e. processRecording up to the end, the
\* FileReader of blobToBase64 included
RecorderStopped(r, gotData) ==
    /\ sess[r].stopPending
    /\ LET h == sess[r].onstop
           i == sess[r].inst
           n == IF gotData THEN audioChunksRef[i] + 1 ELSE audioChunksRef[i]
           S1 == [sess EXCEPT ![r].stopPending = FALSE, ![r].onstop = NoHandler]
       IN  /\ audioChunksRef' = [audioChunksRef EXCEPT ![i] = n]
           /\ sess' = Collect(S1)
           /\ IF h.closure.student = 0
              THEN UNCHANGED <<studentToCall, uiVars, callHistory, log>>
              ELSE /\ AddCallToHistory(EndRecord(h.closure, h.dropped, n, h.session),
                                       h.closure.hist, h.session, S1)
                   /\ SetState(h.closure.inst, "finished", duration, selectedStudentId,
                               EndReason(h.dropped, h.studentEnded), TRUE)
    /\ UNCHANGED <<mounted, inst, timerRef, callEndTimerRef, mediaRecorderRef,
                   audioStreamRef, nSess>>
    /\ UNCHANGED elsewhere

\* all tracks of a recording recorder's stream have ended and nobody called
\* stop(): the browser stops the recorder itself; no onstop is set
RecorderTracksEnded(r, gotData) ==
    /\ sess[r].recState = "recording"
    /\ ~sess[r].streamLive
    /\ sess' = Collect([sess EXCEPT ![r].recState = "inactive"])
    /\ audioChunksRef' = [audioChunksRef EXCEPT ![sess[r].inst] =
                             IF gotData THEN @ + 1 ELSE @]
    /\ UNCHANGED <<mounted, inst, studentToCall, uiVars, timerRef, callEndTimerRef,
                   mediaRecorderRef, audioStreamRef, nSess, callHistory, log>>
    /\ UNCHANGED elsewhere

\* reset() without its setFinishReason('')
ResetKeepsReason ==
    /\ mounted
    /\ callStatus = "finished"
    /\ LET t == timerRef[inst]
       IN  sess' = Collect(IF t # 0 THEN [sess EXCEPT ![t].interval = FALSE] ELSE sess)
    /\ timerRef' = [timerRef EXCEPT ![inst] = 0]
    /\ SetState(inst, "idle", 0, 0, finishReason, TRUE)
    /\ UNCHANGED <<mounted, inst, callEndTimerRef, mediaRecorderRef, audioStreamRef,
                   audioChunksRef, nSess, callHistory, log>>
    /\ UNCHANGED elsewhere

\* 'Make Another Call' on the summary screen
Reset ==
    /\ mounted
    /\ callStatus = "finished"
    /\ LET t == timerRef[inst]
       IN  sess' = Collect(IF t # 0 THEN [sess EXCEPT ![t].interval = FALSE] ELSE sess)
    /\ timerRef' = [timerRef EXCEPT ![inst] = 0]
    /\ SetState(inst, "idle", 0, 0, "", TRUE)
    /\ UNCHANGED <<mounted, inst, callEndTimerRef, mediaRecorderRef, audioStreamRef,
                   audioChunksRef, nSess, callHistory, log>>
    /\ UNCHANGED elsewhere

\* ---- specification -------------------------------------------------------
Next ==
    \/ \E stc \in {studentToCall} \cup Students : Mount(stc)
    \/ Unmount
    \/ \E stu \in Students : SelectStudent(stu)
    \/ CallStartClick
    \/ \E s \in Sessions : GetUserMediaDenied(s)
    \/ \E s \in Sessions : MediaRecorderFails(s)
    \/ \E s \in Sessions : GetUserMediaOk(s)
    \/ \E s \in Sessions, sc \in {"dropped", "studentEnded", "none"} :
          DialConnected(s, sc)
    \/ \E s \in Sessions : DialFailed(s, "Failed (Busy)", "busy")
    \/ \E s \in Sessions : DialFailed(s, "Failed (No Answer)", "noanswer")
    \/ \E s \in Sessions : Tick(s)
    \/ HangUpClick
    \/ \E s \in Sessions : CallEndTimer(s)
    \/ \E r \in Sessions, gotData \in BOOLEAN : RecorderStopped(r, gotData)
    \/ \E r \in Sessions, gotData \in BOOLEAN : RecorderTracksEnded(r, gotData)
    \/ Reset

Spec == Init /\ [][Next]_vars

\* ---- legacy dialer: operations ----------------------------------------------
\* toggleView of the legacy App; the button lies under the CallModal overlay
ToggleView ==
    /\ ~ModalShown
    /\ IF view = "dialer"
       THEN view' = "admin" /\ UNCHANGED dialerInst
       ELSE /\ dialerInst < MaxDialerMounts
            /\ view' = "dialer"
            /\ dialerInst' = dialerInst + 1
    /\ callState' = IdleCallState
    /\ UNCHANGED <<staffPhoneNumber, twilioConfig, requests, nReq, legacyCallHistory,
                   nCalls, nDirect, lastAlert, lastResponse>>
    /\ UNCHANGED outsideDialer

\* Admin: 'Save' of the staff phone number
HandleStaffNumberSave(v) ==
    /\ view = "admin"
    /\ staffPhoneNumber' = v
    /\ UNCHANGED <<view, dialerInst, twilioConfig, callState, requests, nReq,
                   legacyCallHistory, nCalls, nDirect, lastAlert, lastResponse>>
    /\ UNCHANGED outsideDialer

\* Admin: 'Save' of the Twilio configuration
HandleTwilioConfigSave(c) ==
    /\ view = "admin"
    /\ twilioConfig' = c
    /\ UNCHANGED <<view, dialerInst, staffPhoneNumber, callState, requests, nReq,
                   legacyCallHistory, nCalls, nDirect, lastAlert, lastResponse>>
    /\ UNCHANGED outsideDialer

\* Admin: clearCallHistory, confirmed
ClearCallHistory ==
    /\ view = "admin"
    /\ legacyCallHistory' = <<>>
    /\ UNCHANGED <<view, dialerInst, staffPhoneNumber, twilioConfig, callState,
                   requests, nReq, nCalls, nDirect, lastAlert, lastResponse>>
    /\ UNCHANGED outsideDialer

\* a student card is pressed: initiateCall(student) up to the await of fetch;
\* phone is the student's phoneNumber
InitiateCall(stu, phone) ==
    /\ view = "dialer"
    /\ ~ModalShown
    /\ IF staffPhoneNumber = ""
       THEN /\ lastAlert' = "staff phone number"
            /\ UNCHANGED <<callState, requests, nReq>>
       ELSE IF AnyMissing(twilioConfig)
       THEN /\ lastAlert' = "Twilio details"
            /\ UNCHANGED <<callState, requests, nReq>>
       ELSE /\ nReq < MaxRequests
            /\ lastAlert' = ""
            /\ callState' = [student |-> stu, status |-> "calling",
                             message |-> "Connecting...", callSid |-> 0]
            /\ nReq' = nReq + 1
            /\ requests' = [requests EXCEPT ![nReq + 1] =
                  [phase |-> "sent", inst |-> dialerInst, student |-> stu,
                   body |-> [staffNumber |-> staffPhoneNumber, studentNumber |-> phone],
                   answer |-> <<>>]]
    /\ UNCHANGED <<view, dialerInst, staffPhoneNumber, twilioConfig, legacyCallHistory,
                   nCalls, nDirect, lastResponse>>
    /\ UNCHANGED outsideDialer

\* the function runs for request q of the Dialer, with environment e
HandlerRuns(q, e, outcome) ==
    /\ requests[q].phase = "sent"
    /\ LET a == Handler("POST", e, requests[q].body, outcome, nCalls + 1)
       IN  /\ a.status = 200 => nCalls < MaxCalls
           /\ requests' = [requests EXCEPT ![q].phase = "answered", ![q].body = <<>>,
                                           ![q].answer = a]
           /\ nCalls' = IF a.status = 200 THEN nCalls + 1 ELSE nCalls
    /\ UNCHANGED <<view, dialerInst, staffPhoneNumber, twilioConfig, callState, nReq,
                   legacyCallHistory, nDirect, lastAlert, lastResponse>>
    /\ UNCHANGED outsideDialer

\* the function runs for a request of some other HTTP client
DirectRequest(method, e, body, outcome) ==
    /\ nDirect < MaxDirectRequests
    /\ nDirect' = nDirect + 1
    /\ LET a == Handler(method, e, body, outcome, nCalls + 1)
       IN  /\ a.status = 200 => nCalls < MaxCalls
           /\ nCalls' = IF a.status = 200 THEN nCalls + 1 ELSE nCalls
           /\ lastResponse' = [method |-> method, unset |-> AnyMissing(e),
                                status |-> a.status, twilio |-> a.twilio]
    /\ UNCHANGED <<view, dialerInst, staffPhoneNumber, twilioConfig, callState,
                   requests, nReq, legacyCallHistory, lastAlert>>
    /\ UNCHANGED outsideDialer

\* setCallState of the Dialer instance that sent request q; an unmounted
\* instance ignores it
SetCallState(q, cs) ==
    callState' = IF LiveDialer(requests[q].inst) THEN cs ELSE callState

\* request q fails with a BackendError (isDeploymentError): catch of initiateCall
DeploymentError(q, kind) ==
    /\ requests' = Over(requests, q, "failed")
    /\ SetCallState(q, [student |-> requests[q].student, status |-> "deployment-required",
                        message |-> BackendErrorMessage(kind), callSid |-> 0])
    /\ UNCHANGED <<view, dialerInst, staffPhoneNumber, twilioConfig, nReq,
                   legacyCallHistory, nCalls, nDirect, lastAlert, lastResponse>>
    /\ UNCHANGED outsideDialer

\* fetch rejects: the network fails before the response is in
NetworkError(q) ==
    /\ requests[q].phase \in {"sent", "answered"}
    /\ DeploymentError(q, "network")

\* the 10-second timer aborts the fetch before the response is in
BackendTimeout(q) ==
    /\ requests[q].phase \in {"sent", "answered"}
    /\ DeploymentError(q, "timeout")

\* fetch resolves for request q: the headers of the function's answer are in
\* and the 10-second timer is cleared; the body is still to be read
FetchResolves(q) ==
    /\ requests[q].phase = "answered"
    /\ requests' = [requests EXCEPT ![q].phase = "reading"]
    /\ UNCHANGED <<view, dialerInst, staffPhoneNumber, twilioConfig, callState, nReq,
                   legacyCallHistory, nCalls, nDirect, lastAlert, lastResponse>>
    /\ UNCHANGED outsideDialer

\* the host has no such function and answers 404
NotFound(q) ==
    /\ requests[q].phase = "sent"
    /\ DeploymentError(q, "404")

\* response.json() rejects: the host answers with a page that is not JSON, or
\* the body of the function's answer breaks off
NonJsonBody(q) ==
    /\ requests[q].phase \in {"sent", "reading"}
    /\ DeploymentError(q, "non-JSON")

\* the body of the function's answer is read: the rest of initiateCall
ResponseArrives(q) ==
    /\ requests[q].phase = "reading"
    /\ LET a == requests[q].answer
       IN  IF a.status = 200
           THEN /\ requests' = Over(requests, q, "succeeded")
                /\ SetCallState(q, [callState EXCEPT !.status = "initiated",
                                                     !.callSid = a.callSid,
                                                     !.message = ""])
                /\ legacyCallHistory' =
                       <<[callSid |-> a.callSid, studentId |-> requests[q].student,
                          duration |-> "undefined"]>> \o legacyCallHistory
           ELSE /\ requests' = Over(requests, q, "failed")
                /\ SetCallState(q, [student |-> requests[q].student, status |-> "error",
                                    message |-> UserFriendlyMessage(a.status,
                                                    ApiErrorMessage(a.message)),
                                    callSid |-> 0])
                /\ UNCHANGED legacyCallHistory
    /\ UNCHANGED <<view, dialerInst, staffPhoneNumber, twilioConfig, nReq, nCalls,
                   nDirect, lastAlert, lastResponse>>
    /\ UNCHANGED outsideDialer

\* 'End Call & Log' of the CallModal
HandleEndCall ==
    /\ ModalShown
    /\ callState.status \in {"calling", "initiated"}
    /\ legacyCallHistory' = IF callState.callSid # 0
                            THEN MarkCallAsComplete(legacyCallHistory, callState.callSid)
                            ELSE legacyCallHistory
    /\ callState' = [callState EXCEPT !.status = "completed"]
    /\ UNCHANGED <<view, dialerInst, staffPhoneNumber, twilioConfig, requests, nReq,
                   nCalls, nDirect, lastAlert, lastResponse>>
    /\ UNCHANGED outsideDialer

\* 'Close' of the CallModal, or a click on its backdrop
CloseModal ==
    /\ ModalShown
    /\ legacyCallHistory' = IF callState.status = "initiated" /\ callState.callSid # 0
                            THEN MarkCallAsComplete(legacyCallHistory, callState.callSid)
                            ELSE legacyCallHistory
    /\ callState' = IdleCallState
    /\ UNCHANGED <<view, dialerInst, staffPhoneNumber, twilioConfig, requests, nReq,
                   nCalls, nDirect, lastAlert, lastResponse>>
    /\ UNCHANGED outsideDialer

RequestBodies == [staffNumber : Settings, studentNumber : Settings]

DialerNext ==
    \/ ToggleView
    \/ \E v \in Settings : HandleStaffNumberSave(v)
    \/ \E c \in TwilioConfigs : HandleTwilioConfigSave(c)
    \/ ClearCallHistory
    \/ \E stu \in Students, phone \in Settings : InitiateCall(stu, phone)
    \/ \E q \in Requests, e \in Environments, o \in TwilioOutcomes : HandlerRuns(q, e, o)
    \/ \E m \in {"GET", "POST"}, e \in Environments, b \in RequestBodies,
          o \in TwilioOutcomes : DirectRequest(m, e, b, o)
    \/ \E q \in Requests : NetworkError(q)
    \/ \E q \in Requests : BackendTimeout(q)
    \/ \E q \in Requests : FetchResolves(q)
    \/ \E q \in Requests : NotFound(q)
    \/ \E q \in Requests : NonJsonBody(q)
    \/ \E q \in Requests : ResponseArrives(q)
    \/ HandleEndCall
    \/ CloseModal

DialerSpec == Init /\ [][DialerNext]_vars

\* ---- /api/login: operations ----------------------------------------------------
\* the function runs for a request, with environment e
LoginRequest(method, e, body) ==
    /\ lastLogin' = [method |-> method, env |-> e, body |-> body,
                     answer |-> LoginHandler(method, e, body)]
    /\ UNCHANGED outsideLogin

LoginNext ==
    \E m \in {"GET", "POST"}, e \in LoginEnvironments, b \in LoginBodies : LoginRequest(m, e, b)

LoginSpec == Init /\ [][LoginNext]_vars

\* ---- useLocalStorage: operations ----------------------------------------------
\* the storage events a write by tab t queues: one for every other tab, and
\* only when the item changes
Notify(t, before, after) ==
    [o \in Tabs |-> IF o # t /\ after # before THEN Append(pending[o], after)
                    ELSE pending[o]]

\* setValue that updates the state before it persists
SetValueMemoryFirst(t, value, throws) ==
    /\ nSets < MaxSetValues
    /\ nSets' = nSets + 1
    /\ lastSet' = [tab |-> t, value |-> value, threw |-> throws]
    /\ storedValue' = [storedValue EXCEPT ![t] = value]
    /\ IF throws
       THEN UNCHANGED <<storage, pending>>
       ELSE /\ \A o \in Tabs : Len(Notify(t, storage, Persisted(value))[o]) <= MaxPending
            /\ storage' = Persisted(value)
            /\ pending' = Notify(t, storage, Persisted(value))
    /\ UNCHANGED outsideStorage

\* setValue(value) of the hook in tab t; throws: removeItem / setItem throws
\* (storage denied, quota exceeded) and the catch only logs
SetValue(t, value, throws) ==
    /\ nSets < MaxSetValues
    /\ nSets' = nSets + 1
    /\ lastSet' = [tab |-> t, value |-> value, threw |-> throws]
    /\ IF throws
       THEN UNCHANGED <<storage, storedValue, pending>>
       ELSE /\ \A o \in Tabs : Len(Notify(t, storage, Persisted(value))[o]) <= MaxPending
            /\ storage' = Persisted(value)
            /\ storedValue' = [storedValue EXCEPT ![t] = value]
            /\ pending' = Notify(t, storage, Persisted(value))
    /\ UNCHANGED outsideStorage

\* handleLogin(user): the LoginScreen is shown while currentUser is null
HandleLogin(t, u, throws) ==
    /\ storedValue[t] = NoUser
    /\ SetValue(t, u, throws)

\* handleLogout: the Dashboard is shown while currentUser is set
HandleLogout(t, throws) ==
    /\ storedValue[t] # NoUser
    /\ SetValue(t, NoUser, throws)

\* handleStorageChange: the window of tab t takes its next storage event
HandleStorageChange(t) ==
    /\ pending[t] # <<>>
    /\ storedValue' = [storedValue EXCEPT ![t] = FromStorage(Head(pending[t]))]
    /\ pending' = [pending EXCEPT ![t] = Tail(pending[t])]
    /\ UNCHANGED <<storage, nSets, lastSet>>
    /\ UNCHANGED outsideStorage

StorageNext ==
    \/ \E t \in Tabs, u \in Users, throws \in BOOLEAN : HandleLogin(t, u, throws)
    \/ \E t \in Tabs, throws \in BOOLEAN : HandleLogout(t, throws)
    \/ \E t \in Tabs : HandleStorageChange(t)

StorageSpec == Init /\ [][StorageNext]_vars

\* ---- rosters and StudentModal: operations -------------------------------------
\* the wall clock moves: it advances, and it can be set back
ClockMoves(t) ==
    /\ t # clock
    /\ clock' = t
    /\ UNCHANGED <<students, teachers, historyIds, nCreated, modalVars, saveSeq, lastSave>>
    /\ UNCHANGED outsideRoster

\* 'Add Student': setStudentToEdit(null); setModalOpen(true)
OpenAdd ==
    /\ ~isModalOpen
    /\ isModalOpen' = TRUE
    /\ studentToEdit' = NoStudent
    /\ modalName' = Prefill(NoStudent).name
    /\ modalPhone' = Prefill(NoStudent).phone
    /\ UNCHANGED <<clock, students, teachers, historyIds, nCreated, saveSeq, lastSave>>
    /\ UNCHANGED outsideRoster

\* 'Edit Student' of row k: setStudentToEdit(student); setModalOpen(true)
OpenEdit(k) ==
    /\ ~isModalOpen
    /\ k \in 1..Len(students)
    /\ isModalOpen' = TRUE
    /\ studentToEdit' = students[k]
    /\ modalName' = Prefill(students[k]).name
    /\ modalPhone' = Prefill(students[k]).phone
    /\ UNCHANGED <<clock, students, teachers, historyIds, nCreated, saveSeq, lastSave>>
    /\ UNCHANGED outsideRoster

\* the close button or the backdrop: setModalOpen(false); the effect runs again
OnClose ==
    /\ isModalOpen
    /\ isModalOpen' = FALSE
    /\ modalName' = Prefill(studentToEdit).name
    /\ modalPhone' = Prefill(studentToEdit).phone
    /\ UNCHANGED <<clock, students, teachers, historyIds, nCreated, studentToEdit,
                   saveSeq, lastSave>>
    /\ UNCHANGED outsideRoster

\* the operator types a name
SetName(n) ==
    /\ isModalOpen
    /\ modalName' = n
    /\ UNCHANGED <<clock, students, teachers, historyIds, nCreated, isModalOpen,
                   studentToEdit, modalPhone, saveSeq, lastSave>>
    /\ UNCHANGED outsideRoster

\* the operator types a phone number
SetPhone(text) ==
    /\ isModalOpen
    /\ modalPhone' = text
    /\ UNCHANGED <<clock, students, teachers, historyIds, nCreated, isModalOpen,
                   studentToEdit, modalName, saveSeq, lastSave>>
    /\ UNCHANGED outsideRoster

\* handleSaveStudent(studentData) of StudentsSection
HandleSaveStudent(studentData) ==
    /\ IF studentToEdit # NoStudent
       THEN /\ students' = [k \in 1..Len(students) |->
                               IF students[k].id = studentToEdit.id
                               THEN [students[k] EXCEPT !.name = studentData.name,
                                                        !.phone = studentData.phone]
                               ELSE students[k]]
            /\ UNCHANGED nCreated
       ELSE /\ nCreated < MaxCreations
            /\ nCreated' = nCreated + 1
            /\ students' = Append(students, [id |-> clock, name |-> studentData.name,
                                             phone |-> studentData.phone])
    /\ isModalOpen' = FALSE
    /\ studentToEdit' = NoStudent
    /\ modalName' = Prefill(NoStudent).name
    /\ modalPhone' = Prefill(NoStudent).phone

\* handleSave with the leading '1' of the input kept
HandleSaveKeepsOne ==
    /\ isModalOpen
    /\ saveSeq' = 1 - saveSeq
    /\ IF modalName = "" \/ modalPhone = <<>>
       THEN /\ lastSave' = "required"
            /\ UNCHANGED <<students, nCreated, modalVars>>
       ELSE LET a == RemoveSeparators(modalPhone)
                b == IF a # <<>> /\ Head(a) = "+" THEN Tail(a) ELSE a
            IN  IF ~IsTenDigits(b)
                THEN /\ lastSave' = "invalid"
                     /\ UNCHANGED <<students, nCreated, modalVars>>
                ELSE /\ lastSave' = "saved"
                     /\ HandleSaveStudent([name |-> modalName, phone |-> <<"+", "1">> \o b])
    /\ UNCHANGED <<clock, teachers, historyIds>>
    /\ UNCHANGED outsideRoster

\* 'Save Student': handleSave of StudentModal
HandleSave ==
    /\ isModalOpen
    /\ saveSeq' = 1 - saveSeq
    /\ IF modalName = "" \/ modalPhone = <<>>
       THEN /\ lastSave' = "required"
            /\ UNCHANGED <<students, nCreated, modalVars>>
       ELSE IF ~IsTenDigits(CleanPhone(modalPhone))
       THEN /\ lastSave' = "invalid"
            /\ UNCHANGED <<students, nCreated, modalVars>>
       ELSE /\ lastSave' = "saved"
            /\ HandleSaveStudent([name |-> modalName,
                                  phone |-> <<"+", "1">> \o CleanPhone(modalPhone)])
    /\ UNCHANGED <<clock, teachers, historyIds>>
    /\ UNCHANGED outsideRoster

\* handleAddTeacher, onConfirm with a name
HandleAddTeacher ==
    /\ nCreated < MaxCreations
    /\ nCreated' = nCreated + 1
    /\ teachers' = Append(teachers, [id |-> clock])
    /\ UNCHANGED <<clock, students, historyIds, modalVars, saveSeq, lastSave>>
    /\ UNCHANGED outsideRoster

\* Dashboard.addCallToHistory: the id given to the record of a call
StampCallRecord ==
    /\ nCreated < MaxCreations
    /\ nCreated' = nCreated + 1
    /\ historyIds' = <<clock>> \o historyIds
    /\ UNCHANGED <<clock, students, teachers, modalVars, saveSeq, lastSave>>
    /\ UNCHANGED outsideRoster

RosterNext ==
    \/ \E t \in 1..MaxClock : ClockMoves(t)
    \/ OpenAdd
    \/ \E k \in 1..(MaxCreations + 1) : OpenEdit(k)
    \/ OnClose
    \/ \E n \in {"", SeedStudent.name} : SetName(n)
    \/ \E text \in PhoneInputs : SetPhone(text)
    \/ HandleSave
    \/ HandleAddTeacher
    \/ StampCallRecord

RosterSpec == Init /\ [][RosterNext]_vars

\* ---- HistorySection: operations -------------------------------------------------
\* logout and login as u: the Dashboard and its HistorySection are mounted anew
LoginAs(u) ==
    /\ historyUser' = u
    /\ searchTerm' = <<>>
    /\ currentPage' = 1
    /\ nowPlaying' = NoPlaying
    /\ UNCHANGED historyRecords
    /\ UNCHANGED outsideHistory

\* a storage event of another tab replaces currentUser: the 'user' prop of the
\* mounted section changes, its state stays
UserReplaced(u) ==
    /\ u # historyUser
    /\ historyUser' = u
    /\ currentPage' =
           AdjustPage(currentPage, TotalPages(FilteredHistory(u, historyRecords, searchTerm)))
    /\ UNCHANGED <<historyRecords, searchTerm, nowPlaying>>
    /\ UNCHANGED outsideHistory

\* addCallToHistory puts a record of a call in front
RecordAdded(r) ==
    /\ Len(historyRecords) < MaxHistory
    /\ historyRecords' = <<r>> \o historyRecords
    /\ currentPage' =
           AdjustPage(currentPage,
                      TotalPages(FilteredHistory(historyUser, <<r>> \o historyRecords,
                                                 searchTerm)))
    /\ UNCHANGED <<historyUser, searchTerm, nowPlaying>>
    /\ UNCHANGED outsideHistory

\* the search box changes; the effect on [searchTerm] goes to page 1
SetSearchTerm(term) ==
    /\ term # searchTerm
    /\ searchTerm' = term
    /\ currentPage' = 1
    /\ UNCHANGED <<historyUser, historyRecords, nowPlaying>>
    /\ UNCHANGED outsideHistory

\* 'Next'
HandleNextPage ==
    LET total == TotalPages(FilteredHistory(historyUser, historyRecords, searchTerm))
    IN  /\ PagerShown
        /\ currentPage # total
        /\ currentPage' = IF currentPage + 1 < total THEN currentPage + 1 ELSE total
        /\ UNCHANGED <<historyUser, historyRecords, searchTerm, nowPlaying>>
        /\ UNCHANGED outsideHistory

\* 'Previous'
HandlePrevPage ==
    /\ PagerShown
    /\ currentPage # 1
    /\ currentPage' = IF currentPage - 1 > 1 THEN currentPage - 1 ELSE 1
    /\ UNCHANGED <<historyUser, historyRecords, searchTerm, nowPlaying>>
    /\ UNCHANGED outsideHistory

\* 'Play Recording' of the k-th listed record
PlayRecording(k) ==
    /\ k \in 1..Len(Listed)
    /\ PlayShown(Listed[k], historyUser)
    /\ nowPlaying' = [url |-> Listed[k].recordingUrl, studentName |-> Listed[k].studentName]
    /\ UNCHANGED <<historyUser, historyRecords, searchTerm, currentPage>>
    /\ UNCHANGED outsideHistory

\* onClose of the AudioPlayerModal
ClosePlayer ==
    /\ nowPlaying # NoPlaying
    /\ nowPlaying' = NoPlaying
    /\ UNCHANGED <<historyUser, historyRecords, searchTerm, currentPage>>
    /\ UNCHANGED outsideHistory

HistoryNext ==
    \/ \E u \in HistoryUsers : LoginAs(u)
    \/ \E u \in HistoryUsers : UserReplaced(u)
    \/ \E r \in HistoryRecordKinds : RecordAdded(r)
    \/ \E term \in SearchTerms : SetSearchTerm(term)
    \/ HandleNextPage
    \/ HandlePrevPage
    \/ \E k \in 1..ITEMS_PER_PAGE : PlayRecording(k)
    \/ ClosePlayer

HistorySpec == Init /\ [][HistoryNext]_vars

\* ---- vocabulary of the properties ------------------------------------------
\* session s reached 'dialing'
Entered(s) == sess[s].phase = "started"

\* indices of the addCallToHistory calls made for session s
AppendsFor(s) == {k \in 1..Len(log) : log[k].session = s}

\* statuses of the records a call that connected ends with
ConnectedStatuses == {"Completed", "Failed (Dropped)"}

\* r is one of the records of callHistory
InHistory(r) == \E k \in 1..Len(callHistory) : callHistory[k] = r

\* session s holds capture: a live stream or a recording recorder
Capturing(s) == sess[s].streamLive \/ sess[s].recState = "recording"

\* C1: no call session has more than one record appended on its behalf
C1_AtMostOneRecord ==
    \A s \in Sessions : Cardinality(AppendsFor(s)) <= 1

\* C2: a session for which a 'Canceled' record was appended gets no record
\* with another status, and its 'Canceled' record stays in callHistory
C2_CanceledStaysCanceled ==
    \A k \in 1..Len(log) :
        log[k].rec.status = "Canceled" =>
            /\ \A j \in AppendsFor(log[k].session) : log[j].rec.status = "Canceled"
            /\ InHistory(log[k].rec)

\* C3: the duration of every record of a call that connected equals the
\* number of ticks counted for its session
C3_DurationIsTicks ==
    \A k \in 1..Len(log) :
        log[k].rec.status \in ConnectedStatuses => log[k].rec.duration = log[k].ticks

\* C4: a session that entered 'dialing' and has nothing left to run (no
\* timer, no recorder event, no hang-up button) has a record appended for it
C4_RecordedWhenOver ==
    \A s \in Sessions :
        (/\ Entered(s)
         /\ Dead(sess, s)
         /\ ~(Live(sess[s].inst) /\ callStatus \in {"dialing", "active"}))
        => AppendsFor(s) # {}

\* C5: while the section shows neither 'dialing' nor 'active', no session it
\* started holds a live stream or a recording recorder
C5_NoCaptureAfterExit ==
    (mounted /\ callStatus \in {"idle", "finished"}) =>
        \A s \in Sessions : (Entered(s) /\ sess[s].inst = inst) => ~Capturing(s)

\* C6: every appended record with a status other than 'Completed' and
\* 'Failed (Dropped)' has duration 0, and no appended record has a negative
\* duration
C6_FailedDurationZero ==
    \A k \in 1..Len(log) :
        /\ log[k].rec.status \notin ConnectedStatuses => log[k].rec.duration = 0
        /\ log[k].rec.duration >= 0

\* a record of a call that never connected has been appended
C6_Witness ==
    /\ \E k \in 1..Len(log) : log[k].rec.status = "Canceled"
    /\ \E k \in 1..Len(log) : log[k].rec.status = "Failed (Busy)"

\* C7: once a record has been appended for a session, no tick interval
\* started for that session is running
C7_NoTickAfterRecord ==
    \A s \in Sessions : AppendsFor(s) # {} => ~sess[s].interval

\* C8: the busy / no-answer resolution of a session on screen appends exactly
\* one record (the session's student, the matching status, duration 0,
\* recordingUrl null), leaves the recorder unstarted and the status 'finished'
C8_DialFailedOutcome ==
    [][\A s \in Sessions :
        \A o \in {<<"Failed (Busy)", "busy">>, <<"Failed (No Answer)", "noanswer">>} :
          (DialFailed(s, o[1], o[2]) /\ Live(sess[s].inst)) =>
              /\ Len(log') = Len(log) + 1
              /\ Head(callHistory') = CallRecordOf(sess[s].student, o[1], 0, "null", s)
              /\ sess'[s].recState = "inactive"
              /\ callStatus' = "finished"]_vars

\* C9: a hang-up in 'dialing' before the dial timeout fired appends exactly
\* one record with status 'Canceled', duration 0 and recordingUrl null, and
\* leaves the status 'finished'
C9_CancelOutcome ==
    [][(/\ HangUpClick
        /\ callStatus = "dialing"
        /\ selectedStudentId # 0
        /\ sess[mediaRecorderRef[inst]].dialPending) =>
            /\ Len(log') = Len(log) + 1
            /\ Head(callHistory') =
                   CallRecordOf(selectedStudentId, "Canceled", 0, "null", mediaRecorderRef[inst])
            /\ callStatus' = "finished"]_vars

\* the only session in flight is s, it is 'active' on screen and recording
ActiveAlone(s) ==
    /\ Live(sess[s].inst)
    /\ callStatus = "active"
    /\ mediaRecorderRef[inst] = s
    /\ sess[s].recState = "recording"
    /\ selectedStudentId = sess[s].student

\* C10: for an active session the operator's hang-up records 'Completed', a
\* drop records 'Failed (Dropped)', and the student's hang-up records the same
\* record as the operator's hang-up at that moment would
C10_EndRecords ==
    \A s \in Sessions : \A n \in 0..1 :
        ActiveAlone(s) =>
            /\ EndRecord(ClickClosure, FALSE, n, s).status = "Completed"
            /\ sess[s].endTimer = "dropped" =>
                   EndRecord(TimerClosure(s), TRUE, n, s).status = "Failed (Dropped)"
            /\ sess[s].endTimer = "studentEnded" =>
                   EndRecord(TimerClosure(s), FALSE, n, s) = EndRecord(ClickClosure, FALSE, n, s)

\* C11: a start attempt that fails before 'dialing' (getUserMedia rejected or
\* the MediaRecorder not constructed) leaves the status 'idle', appends no
\* record and leaves no live audio stream behind
C11_FailedStartLeavesNothing ==
    [][\A s \in Sessions :
        ((GetUserMediaDenied(s) \/ MediaRecorderFails(s)) /\ Live(sess[s].inst)) =>
            /\ callStatus' = "idle"
            /\ log' = log
            /\ callHistory' = callHistory
            /\ ~sess'[s].streamLive]_vars

\* C12: every record of callHistory is still in callHistory after any step,
\* and no record occurs twice in callHistory
C12_AppendOnly ==
    [][/\ \A k \in 1..Len(callHistory) :
              \E j \in 1..Len(callHistory') : callHistory'[j] = callHistory[k]
       /\ \A j, k \in 1..Len(callHistory') :
              callHistory'[j] = callHistory'[k] => j = k]_vars

\* s is the only call session the mounted section has started
OnlySession(s) ==
    {x \in Sessions : sess[x].phase # "free" /\ sess[x].inst = inst} = {s}

\* C15: while the section shows 'finished', finishReason is not empty and a
\* record has been appended for the session that finished (taken here when
\* it is the section's only session)
C15_FinishedHasRecord ==
    (mounted /\ callStatus = "finished") =>
        /\ finishReason # ""
        /\ \A s \in Sessions : OnlySession(s) => AppendsFor(s) # {}

\* C16: only reset (or leaving the section) takes the status out of
\* 'finished', and a call is started only when no summary of an earlier
\* session is left undismissed
C16_FinishedUntilReset ==
    [][/\ (mounted /\ callStatus = "finished" /\ callStatus' # "finished") =>
              (Reset \/ Unmount)
       /\ CallStartClick => finishReason = ""]_vars

\* the changes of callStatus of one mounted section
LegalTransitions ==
    { <<"idle", "dialing">>, <<"dialing", "active">>, <<"dialing", "finished">>,
      <<"active", "finished">>, <<"finished", "idle">> }

\* C17: every change of callStatus within one mounted section is one of
\* idle->dialing, dialing->active, dialing->finished, active->finished and
\* finished->idle
C17_LegalTransitions ==
    [][(mounted /\ mounted' /\ callStatus' # callStatus) =>
           <<callStatus, callStatus'>> \in LegalTransitions]_vars

\* C18: at no time are there two pending dial timeouts, two running tick
\* intervals or two sessions that reached 'dialing' and hold capture
C18_OneSessionInFlight ==
    /\ Cardinality({s \in Sessions : sess[s].dialPending}) <= 1
    /\ Cardinality({s \in Sessions : sess[s].interval}) <= 1
    /\ Cardinality({s \in Sessions : Entered(s) /\ Capturing(s)}) <= 1

\* C19: a record of a call that connected has a recordingUrl other than null
\* only if audio was captured, and every other record has recordingUrl null
C19_UrlOnlyWithAudio ==
    \A k \in 1..Len(log) :
        IF log[k].rec.status \in ConnectedStatuses
        THEN log[k].rec.recordingUrl \in {"null", BlobToBase64(1)}
        ELSE log[k].rec.recordingUrl = "null"

\* C20: reset() leaves status 'idle', duration 0, finishReason empty and no
\* student selected
C20_ResetClearsSession ==
    [][Reset =>
           /\ callStatus' = "idle"
           /\ duration' = 0
           /\ finishReason' = ""
           /\ selectedStudentId' = 0]_vars

\* reset has dismissed the summary of a recorded session of the first mount
\* (only reset empties finishReason once a handler has set it)
C20_Witness ==
    /\ mounted /\ inst = 1
    /\ Len(log) > 0
    /\ callStatus = "idle"
    /\ finishReason = ""
    /\ selectedStudentId = 0
    /\ duration = 0

\* initiateCall refuses when a setting is missing: the Dialer is and stays
\* 'idle', nothing is sent and the history is left alone
RefusalLeavesIdle ==
    \A stu \in Students, phone \in Settings :
        (InitiateCall(stu, phone) /\ (staffPhoneNumber = "" \/ AnyMissing(twilioConfig))) =>
            /\ callState.status = "idle"
            /\ callState' = callState
            /\ requests' = requests /\ nReq' = nReq
            /\ legacyCallHistory' = legacyCallHistory

\* C13 as stated: initiateCall refuses when the staff number or a Twilio
\* setting is missing, and the handler answers 500 without contacting Twilio
\* whenever a TWILIO_* variable is unset
C13_RefusedWithoutConfig ==
    [][/\ RefusalLeavesIdle
       /\ lastResponse'.unset =>
              lastResponse'.status = 500 /\ ~lastResponse'.twilio]_vars

\* C13 amended: as above, but the handler answers 500 to a POST request; with
\* a TWILIO_* variable unset it contacts Twilio for no request of any method
C13_RefusedWithoutConfigOnPost ==
    [][/\ RefusalLeavesIdle
       /\ lastResponse'.unset =>
              /\ ~lastResponse'.twilio
              /\ lastResponse'.method = "POST" => lastResponse'.status = 500]_vars

\* initiateCall has refused a call for missing Twilio details, and the handler
\* has answered a POST with a TWILIO_* variable unset
C13_Witness ==
    /\ lastAlert = "Twilio details"
    /\ staffPhoneNumber # ""
    /\ nReq = 0
    /\ lastResponse.method = "POST" /\ lastResponse.unset

\* request q fails in this step
Fails(q) ==
    /\ requests[q].phase \in {"sent", "answered", "reading"}
    /\ requests'[q].phase = "failed"

\* C14: a failing request adds no history record and leaves the call state of
\* its (mounted) Dialer 'error' or 'deployment-required' with a message; the
\* history grows only by the record of a 200 response that carries a callSid
C14_FailureAddsNoRecord ==
    [][/\ \A q \in Requests :
              Fails(q) =>
                  /\ legacyCallHistory' = legacyCallHistory
                  /\ LiveDialer(requests[q].inst) =>
                         /\ callState'.status \in {"error", "deployment-required"}
                         /\ callState'.message # ""
                         /\ callState'.student = requests[q].student
       /\ Len(legacyCallHistory') > Len(legacyCallHistory) =>
              \E q \in Requests :
                  /\ requests[q].phase = "reading"
                  /\ requests[q].answer.status = 200
                  /\ requests[q].answer.callSid # 0
                  /\ requests'[q].phase = "succeeded"
                  /\ Head(legacyCallHistory').callSid = requests[q].answer.callSid
                  /\ Tail(legacyCallHistory') = legacyCallHistory]_vars

\* one request failed with an API error that the modal shows, another
\* succeeded and its record is the only one
C14_Witness ==
    /\ \E q \in Requests :
          /\ requests[q].phase = "failed"
          /\ LiveDialer(requests[q].inst)
          /\ callState.status = "error"
          /\ callState.student = requests[q].student
    /\ \E q \in Requests : requests[q].phase = "succeeded"
    /\ Len(legacyCallHistory) = 1

\* C24: once the instance that started a session is unmounted, nothing of
\* that session is left to run: no dial timeout, no tick interval and no
\* call-end timeout is pending
C24_NothingRunsAfterUnmount ==
    \A s \in Sessions :
        (Entered(s) /\ ~Live(sess[s].inst)) =>
            /\ ~sess[s].dialPending
            /\ ~sess[s].interval
            /\ sess[s].endTimer = "none"

\* C25: while the Dialer is on screen with its call modal dismissed
\* (callState.status 'idle'), no record of the call history is left in
\* progress (duration undefined)
C25_NoRecordLeftInProgress ==
    (view = "dialer" /\ callState.status = "idle") =>
        \A k \in 1..Len(legacyCallHistory) : legacyCallHistory[k].duration # "undefined"

\* request q is in flight: initiateCall is suspended in apiCallToBackend
InFlight(q) == requests[q].phase \in {"sent", "answered", "reading"}

\* C26: while a request is in flight, the abort of the 10-second timer can
\* still end it, so that the call leaves 'calling' whatever the backend does
C26_InFlightCanTimeOut ==
    \A q \in Requests : InFlight(q) => ENABLED BackendTimeout(q)

\* C27: /api/login answers 200 with success only to a POST, with both
\* passwords configured, whose password is the one configured for its type
\* and, for staff, with a name; every answer is 200, 405, 400, 500 or 401 and
\* only the 200 answer says success
C27_SuccessOnlyWithPassword ==
    lastLogin.method # "" =>
        /\ lastLogin.answer.status \in {200, 405, 400, 500, 401}
        /\ lastLogin.answer.success <=> lastLogin.answer.status = 200
        /\ lastLogin.answer.status = 200 =>
               /\ lastLogin.method = "POST"
               /\ lastLogin.env.adminPassword # "" /\ lastLogin.env.staffPassword # ""
               /\ lastLogin.body.type \in {"admin", "staff"}
               /\ lastLogin.body.type = "admin" =>
                      lastLogin.body.password = lastLogin.env.adminPassword
               /\ lastLogin.body.type = "staff" =>
                      /\ lastLogin.body.password = lastLogin.env.staffPassword
                      /\ lastLogin.body.name # ""

\* a staff login was accepted although the admin password differs
C27_Witness ==
    /\ lastLogin.answer.status = 200
    /\ lastLogin.body.type = "staff"
    /\ lastLogin.env.adminPassword # lastLogin.env.staffPassword

\* no storage event is waiting in any tab
Quiet == \A t \in Tabs : pending[t] = <<>>

\* C23: once the key has been removed by a logout and every tab has
\* received its storage events, currentUser is null in every tab
C23_LogoutReachesAllTabs ==
    (storage = <<>> /\ Quiet) => \A t \in Tabs : storedValue[t] = NoUser

\* C28: after a setValue that persists, the state of its hook is the value
\* passed and is what the key holds (absent for null); after a setValue
\* whose persisting throws, neither the state nor the item has changed
C28_MemoryAgreesWithStorage ==
    [][nSets' # nSets =>
          IF lastSet'.threw
          THEN storedValue' = storedValue /\ storage' = storage
          ELSE /\ storedValue'[lastSet'.tab] = lastSet'.value
               /\ FromStorage(storage') = storedValue'[lastSet'.tab]
               /\ storage' = <<>> <=> lastSet'.value = NoUser]_vars

\* a login was persisted, and a later logout threw and changed nothing
C28_Witness ==
    /\ lastSet.tab # 0 /\ lastSet.threw /\ lastSet.value = NoUser
    /\ storage # <<>>
    /\ storedValue[lastSet.tab] = FromStorage(storage)

\* the ids of a roster, in order
Ids(roster) == [k \in 1..Len(roster) |-> roster[k].id]

\* no value occurs twice in the sequence
Distinct(ids) == \A i, j \in 1..Len(ids) : i # j => ids[i] # ids[j]

\* C21: ids are pairwise distinct within the student roster, within the
\* teacher roster and within call history
C21_IdsDistinct ==
    /\ Distinct(Ids(students))
    /\ Distinct(Ids(teachers))
    /\ Distinct(historyIds)

C30_EditRoundTrip ==
    [][(/\ saveSeq' # saveSeq
        /\ studentToEdit # NoStudent
        /\ IsStoredPhone(studentToEdit.phone)
        /\ modalName = Prefill(studentToEdit).name
        /\ modalPhone = Prefill(studentToEdit).phone) =>
           /\ lastSave' = "saved"
           /\ students' = students]_vars

\* every record of the list has the teacherName of u and no Play Recording button
OwnRecordsOnly(list, u) ==
    \A k \in 1..Len(list) : list[k].teacherName = u.name /\ ~PlayShown(list[k], u)

\* C29: for a user who is not an admin, what the section lists, and what it
\* would list for any search term on any page, are records whose teacherName
\* is the user's name, none of them with the Play Recording button
C29_StaffSeesOwnRecords ==
    historyUser.type # "admin" =>
        /\ OwnRecordsOnly(Listed, historyUser)
        /\ \A term \in SearchTerms, page \in 1..MaxHistory :
               OwnRecordsOnly(
                   PaginatedHistory(FilteredHistory(historyUser, historyRecords, term), page),
                   historyUser)

\* a staff user is on the second page of their records while the history
\* holds a record of another teacher with a recording
C29_Witness ==
    /\ historyUser.type = "staff"
    /\ currentPage = 2
    /\ Listed # <<>>
    /\ \E k \in 1..Len(historyRecords) :
           /\ historyRecords[k].teacherName # historyUser.name
           /\ historyRecords[k].recordingUrl # "null"

====
